---- MODULE Spec2Model ----
(***************************************************************************)
(* Campus social application (Django): location-sharing ledger, friendship *)
(* graph and event coordinator, modelled from main/views.py and            *)
(* main/models.py.  Time is counted in whole hours.                        *)
(***************************************************************************)
EXTENDS Integers, Sequences, FiniteSets, Bags, TLC

\* ------------------------------------------------------------------ bounds
MaxTime == 4
MaxShares == 2
MaxFriendshipId == 3
MaxActivities == 5
MaxCapacity == 2
MaxViews == 2
MaxFeedTime == 1
MaxPresenceTime == 5
MaxReviews == 3
MaxReviewTime == 1
MaxCrowdTime == 3

\* ------------------------------------------------------- program constants
ShareWindow == 4
RecentShareHours == 24
CrowdWindowHours == 2

\* --------------------------------------------------------------- universes
Users == {1, 2, 3}
Sharers == {1, 2}
Befrienders == {1, 2}
Locations == {"L1", "L2"}
BadLocation == "LX"
NoLocation == ""
LocationInputs == Locations \cup {BadLocation, NoLocation}
NULL == -1
NoUser == 0
UserIdInputs == Befrienders \cup {NoUser}
Requests == {1, 2}
FriendshipIds == 1..MaxFriendshipId
\* LocationReview.CROWD_LEVELS
CROWD_LEVELS == {"light", "moderate", "heavy"}
Reviewers == {1, 2}
\* submit_review form values <<location_id, wifi_rating, cleanliness_rating,
\* noise_rating, general_rating in tenths, crowd_level, review_text>>: four
\* that pass the checks of the handler and one of each kind that does not
ReviewForms ==
    {<<"L1", 1, 1, 1, 100, "moderate", "quiet">>, <<"L1", 1, 1, 2, 10, "heavy", "">>,
     <<"L1", 1, 2, 2, 55, "light", "busy">>, <<"L1", 10, 10, 10, 10, "packed", "">>,
     <<NoLocation, 5, 5, 5, 50, "light", "">>, <<"L1", 5, 5, 5, 50, "", "">>,
     <<"L1", 0, 5, 5, 50, "light", "">>, <<"L1", 5, 5, 5, 105, "light", "">>,
     <<"L1", 5, 5, 5, NULL, "light", "">>, <<BadLocation, 5, 5, 5, 50, "light", "">>}
\* the forms of the reviewers whose crowd reports are counted
CrowdForms ==
    {<<"L1", 5, 5, 5, 50, "light", "">>, <<"L1", 5, 5, 5, 50, "heavy", "">>}
\* the memory table holds up to two rows
MemoryIds == {1, 2}
MissingMemoryId == 3
MemoryIdInputs == MemoryIds \cup {MissingMemoryId}
\* Memory.VISIBILITY_CHOICES
VISIBILITY_CHOICES == {"public", "friends", "private"}
\* the visibility field of a form: a choice, or any other string
VisibilityInputs == VISIBILITY_CHOICES \cup {"secret"}
\* the location_id field of the memory form
MemoryLocationInputs == {"L1", BadLocation, NoLocation}
\* the event table holds one row; the handlers address an event by its id
EventIds == {1}
MissingEventId == 2
EventIdInputs == EventIds \cup {MissingEventId}
Capacities == 1..MaxCapacity
\* create_event form values <<location_id, max_participants, hours_from_now,
\* duration_hours>>: the valid ones and one of each kind of invalid one
CreateEventInputs ==
    {<<"L1", mp, 0, 1>> : mp \in Capacities} \cup
    {<<NoLocation, 1, 0, 1>>, <<BadLocation, 1, 0, 1>>, <<"L1", 0, 0, 1>>,
     <<"L1", 1, -1, 1>>, <<"L1", 1, 0, 0>>}

VARIABLES
    now,                 \* timezone.now(), in hours
    msg,                 \* message flashed by the last request
    shares,              \* LocationShare table, index = share_id
    active_users_count,  \* Location.active_users_count per location
    review_prompt,       \* session['review_prompt_location_id'] per user
    pc, reqUser, reqLoc, \* interleaved share_location requests
    friendships,         \* Friendship table, a set of rows
    next_friendship_id,  \* AutoField sequence of Friendship
    events,              \* Event table, index = event_id
    activities,          \* EventActivity table in creation order
    cancel_pc,           \* cancel_event request between its two writes
    memories,            \* Memory table, index = memory_id
    reviews,             \* LocationReview table, index = review_id
    current_crowd_level, \* Location.current_crowd_level per location
    join_pc              \* interleaved join_event requests

vars == <<now, msg, shares, active_users_count, review_prompt, pc, reqUser, reqLoc,
          friendships, next_friendship_id, events, activities, cancel_pc, memories,
          reviews, current_crowd_level, join_pc>>

shareVars == <<shares, active_users_count, review_prompt>>
raceVars == <<pc, reqUser, reqLoc>>
friendVars == <<friendships, next_friendship_id>>
eventVars == <<events, activities>>
reviewVars == <<reviews, current_crowd_level>>
outsideShare == <<friendVars, eventVars, cancel_pc, join_pc, memories, reviewVars>>
outsideFriend == <<shareVars, raceVars, eventVars, cancel_pc, join_pc, memories, reviewVars>>
outsideEventTables == <<active_users_count, review_prompt, raceVars, friendVars, memories,
                        reviewVars, join_pc>>
outsideEvent == <<outsideEventTables, cancel_pc>>
outsideMemory == <<shareVars, raceVars, friendVars, eventVars, cancel_pc, join_pc, reviewVars>>
outsideReview == <<active_users_count, raceVars, friendVars, eventVars, cancel_pc, join_pc,
                   memories>>
outsideJoin == <<active_users_count, review_prompt, raceVars, friendVars, memories,
                 reviewVars, cancel_pc>>

\* ----------------------------------------------- location-sharing ledger
\* a plausible slip: expires_at__lt instead of expires_at__lte
SweepExpiredStrict(s) ==
    [i \in DOMAIN s |->
        IF s[i].expires_at < now /\ s[i].is_active
        THEN [s[i] EXCEPT !.is_active = FALSE]
        ELSE s[i]]

\* LocationShare.objects.filter(expires_at__lte=now, is_active=True)
\*     .update(is_active=False)
SweepExpired(s) ==
    [i \in DOMAIN s |->
        IF s[i].expires_at <= now /\ s[i].is_active
        THEN [s[i] EXCEPT !.is_active = FALSE]
        ELSE s[i]]

\* a plausible slip: only the shares at the newly chosen location are
\* deactivated (here: none are)
DeactivateNone(s, u) == s

\* LocationShare.objects.filter(user=u, is_active=True).update(is_active=False)
DeactivateShares(s, u) ==
    [i \in DOMAIN s |->
        IF s[i].user = u /\ s[i].is_active
        THEN [s[i] EXCEPT !.is_active = FALSE]
        ELSE s[i]]

\* a plausible slip: the four-hour window is not added
NewShareNoWindow(u, l) ==
    [user |-> u, location |-> l, shared_at |-> now,
     expires_at |-> now, is_active |-> TRUE]

\* LocationShare.objects.create(user=u, location=l, expires_at=now+4h, ...)
NewShare(u, l) ==
    [user |-> u, location |-> l, shared_at |-> now,
     expires_at |-> now + ShareWindow, is_active |-> TRUE]

\* LocationShare.objects.filter(location=l, is_active=True,
\*     expires_at__gt=now).count()
CountActiveAt(s, l) ==
    Cardinality({i \in DOMAIN s :
        s[i].location = l /\ s[i].is_active /\ s[i].expires_at > now})

\* share ids of u that are active and not expired
LiveSharesOf(s, u) ==
    {i \in DOMAIN s : s[i].user = u /\ s[i].is_active /\ s[i].expires_at > now}

\* a plausible slip: the user filter of the lookup is missing
FirstShareOfAnyone(s, u) ==
    {i \in DOMAIN s : s[i].is_active /\ s[i].expires_at > now}

\* .first() under Meta.ordering = ['-shared_at']: a row with the greatest
\* shared_at; the store picks any of them on a tie
FirstShareCandidates(s, u) ==
    {i \in LiveSharesOf(s, u) :
        \A j \in LiveSharesOf(s, u) : s[j].shared_at <= s[i].shared_at}

Init ==
    /\ now = 0
    /\ msg = "none"
    /\ shares = <<>>
    /\ active_users_count = [l \in Locations |-> 0]
    /\ review_prompt = [u \in Users |-> NoLocation]
    /\ pc = [r \in Requests |-> "idle"]
    /\ reqUser = [r \in Requests |-> NULL]
    /\ reqLoc = [r \in Requests |-> NoLocation]
    /\ friendships = {}
    /\ next_friendship_id = 1
    /\ events = <<>>
    /\ activities = <<>>
    /\ cancel_pc = <<>>
    /\ memories = <<>>
    /\ reviews = <<>>
    /\ current_crowd_level = [l \in Locations |-> "light"]
    /\ join_pc = [r \in Requests |-> <<>>]

\* the clock advances by one hour, up to the given hour
TickUntil(limit) ==
    /\ now < limit
    /\ now' = now + 1
    /\ UNCHANGED <<msg, shareVars, raceVars, friendVars, eventVars, cancel_pc, memories,
                   reviewVars, join_pc>>

\* the clock advances by one hour
Tick == TickUntil(MaxTime)

\* GET dashboard: only the expiry sweep writes
DashboardGet(u) ==
    /\ shares' = SweepExpired(shares)
    /\ msg' = "none"
    /\ UNCHANGED <<now, active_users_count, review_prompt, raceVars, outsideShare>>

\* POST dashboard, action == 'share_location'
ShareLocation(u, lid) ==
    /\ lid \in Locations => Len(shares) < MaxShares
    /\ LET swept == SweepExpired(shares) IN
       IF lid = NoLocation
       THEN /\ shares' = swept
            /\ msg' = "none"
            /\ UNCHANGED active_users_count
       ELSE IF lid \notin Locations
       THEN /\ shares' = swept
            /\ msg' = "Invalid location selected"
            /\ UNCHANGED active_users_count
       ELSE LET created == Append(DeactivateShares(swept, u), NewShare(u, lid)) IN
            /\ shares' = created
            /\ active_users_count' =
                   [active_users_count EXCEPT ![lid] = CountActiveAt(created, lid)]
            /\ msg' = "Location shared"
    /\ UNCHANGED <<now, review_prompt, raceVars, outsideShare>>

\* POST dashboard, action == 'stop_sharing'
StopSharing(u) ==
    /\ LET swept == SweepExpired(shares)
           stopped == DeactivateShares(swept, u)
       IN  /\ shares' = stopped
           /\ IF FirstShareCandidates(swept, u) = {}
              THEN UNCHANGED <<active_users_count, review_prompt>>
              ELSE \E cs \in FirstShareCandidates(swept, u) :
                     LET l == swept[cs].location IN
                     /\ active_users_count' =
                            [active_users_count EXCEPT ![l] = CountActiveAt(stopped, l)]
                     /\ review_prompt' = [review_prompt EXCEPT ![u] = l]
    /\ msg' = "Location sharing stopped"
    /\ UNCHANGED <<now, raceVars, outsideShare>>

ShareNext ==
    \/ Tick
    \/ \E u \in Sharers : DashboardGet(u)
    \/ \E u \in Sharers, lid \in LocationInputs : ShareLocation(u, lid)
    \/ \E u \in Sharers : StopSharing(u)

ShareSpec == Init /\ [][ShareNext]_vars

\* ---------------------------------------- interleaved share_location requests
\* Each request runs the statements of the share_location branch one store
\* statement at a time; the store runs in autocommit mode and nothing locks.

\* request entry: expiry sweep, then Location.objects.get(location_id=lid)
ReqBegin(r, u, lid) ==
    /\ pc[r] = "idle"
    /\ shares' = SweepExpired(shares)
    /\ reqUser' = [reqUser EXCEPT ![r] = u]
    /\ reqLoc' = [reqLoc EXCEPT ![r] = lid]
    /\ IF lid \in Locations
       THEN /\ pc' = [pc EXCEPT ![r] = "deactivate"]
            /\ UNCHANGED msg
       ELSE /\ pc' = [pc EXCEPT ![r] = "done"]
            /\ msg' = IF lid = NoLocation THEN "none" ELSE "Invalid location selected"
    /\ UNCHANGED <<now, active_users_count, review_prompt, outsideShare>>

\* LocationShare.objects.filter(user=u, is_active=True).update(is_active=False)
ReqDeactivate(r) ==
    /\ pc[r] = "deactivate"
    /\ shares' = DeactivateShares(shares, reqUser[r])
    /\ pc' = [pc EXCEPT ![r] = "insert"]
    /\ UNCHANGED <<now, msg, active_users_count, review_prompt, reqUser, reqLoc, outsideShare>>

\* LocationShare.objects.create(...)
ReqInsert(r) ==
    /\ pc[r] = "insert"
    /\ Len(shares) < MaxShares
    /\ shares' = Append(shares, NewShare(reqUser[r], reqLoc[r]))
    /\ pc' = [pc EXCEPT ![r] = "recount"]
    /\ UNCHANGED <<now, msg, active_users_count, review_prompt, reqUser, reqLoc, outsideShare>>

\* location.active_users_count = ...count(); location.save(update_fields=...)
ReqRecount(r) ==
    /\ pc[r] = "recount"
    /\ active_users_count' =
           [active_users_count EXCEPT ![reqLoc[r]] = CountActiveAt(shares, reqLoc[r])]
    /\ msg' = "Location shared"
    /\ pc' = [pc EXCEPT ![r] = "done"]
    /\ UNCHANGED <<now, shares, review_prompt, reqUser, reqLoc, outsideShare>>

ShareRaceNext ==
    \/ Tick
    \/ \E r \in Requests, u \in Sharers, lid \in LocationInputs : ReqBegin(r, u, lid)
    \/ \E r \in Requests : ReqDeactivate(r)
    \/ \E r \in Requests : ReqInsert(r)
    \/ \E r \in Requests : ReqRecount(r)

ShareRaceSpec == Init /\ [][ShareRaceNext]_vars

\* ------------------------------------------------------------ share claims
\* C1: after any sequence of atomically run share and stop requests, every
\* user has at most one share that is active and unexpired, and that share is
\* the user's most recently created one.
AtMostOneLiveShare(s, u) ==
    /\ Cardinality(LiveSharesOf(s, u)) <= 1
    /\ \A i \in LiveSharesOf(s, u) :
           \A j \in DOMAIN s : s[j].user = u => j <= i

C1_OneLiveShare == \A u \in Users : AtMostOneLiveShare(shares, u)

\* a user who shared twice has the second share live and the first one not
C1_Witness ==
    \E i, j \in DOMAIN shares :
        /\ i < j
        /\ shares[i].user = shares[j].user
        /\ LiveSharesOf(shares, shares[j].user) = {j}
        /\ shares[i].expires_at > now

\* C2: when two share requests of one user interleave statement by
\* statement, the user has at most one active unexpired share once both are
\* complete.
C2_RaceFinalOneLive ==
    \A u \in Users :
        (\A r \in Requests : pc[r] = "done" /\ reqUser[r] = u /\ reqLoc[r] \in Locations)
            => Cardinality(LiveSharesOf(shares, u)) <= 1

\* --------------------------------------------------------- friendship graph
\* a plausible slip: only the requester's own outgoing row is looked up
ExistingOneWay(a, b) ==
    {f \in friendships : f.user1 = a /\ f.user2 = b}

\* a plausible slip: blocked rows are not counted as an existing relation
ExistingUnblocked(a, b) ==
    {f \in friendships :
        /\ f.status # "blocked"
        /\ \/ f.user1 = a /\ f.user2 = b
           \/ f.user1 = b /\ f.user2 = a}

\* Friendship.objects.filter(Q(user1=a, user2=b) | Q(user1=b, user2=a))
ExistingFriendships(a, b) ==
    {f \in friendships :
        \/ f.user1 = a /\ f.user2 = b
        \/ f.user1 = b /\ f.user2 = a}

\* a plausible slip: the lookup does not require the caller to be user2
PendingForAnyone(u, fid) ==
    {f \in friendships : f.friendship_id = fid /\ f.status = "pending"}

\* get_object_or_404(Friendship, friendship_id=fid, user2=u, status='pending')
PendingFor(u, fid) ==
    {f \in friendships :
        f.friendship_id = fid /\ f.user2 = u /\ f.status = "pending"}

\* a plausible slip: only the ordering (user1, user2) is checked
are_friends_one_way(u1, u2) ==
    \E f \in friendships : f.user1 = u1 /\ f.user2 = u2 /\ f.status = "accepted"

\* FriendshipManager.are_friends
are_friends(u1, u2) ==
    \E f \in friendships :
        \/ f.user1 = u1 /\ f.user2 = u2 /\ f.status = "accepted"
        \/ f.user1 = u2 /\ f.user2 = u1 /\ f.status = "accepted"

\* The rows of User LEFT JOIN friendships_received LEFT JOIN
\* friendships_initiated that pass the filter of get_friends, as a bag of
\* user ids (one copy per joined row).
FriendJoinRows(user) ==
    LET received(x) == {f.friendship_id : f \in {g \in friendships : g.user2 = x}}
        initiated(x) == {f.friendship_id : f \in {g \in friendships : g.user1 = x}}
        orNull(S) == IF S = {} THEN {NULL} ELSE S
        row(id) == CHOOSE f \in friendships : f.friendship_id = id
        passes(r, i) ==
            \/ r # NULL /\ row(r).user1 = user /\ row(r).status = "accepted"
            \/ i # NULL /\ row(i).user2 = user /\ row(i).status = "accepted"
        rows == {t \in UNION {{<<x, r, i>> : r \in orNull(received(x)),
                                              i \in orNull(initiated(x))} : x \in Users} :
                    passes(t[2], t[3])}
        xs == {t[1] : t \in rows}
    IN  [x \in xs |-> Cardinality({t \in rows : t[1] = x})]

\* FriendshipManager.get_friends: the joined rows, .distinct()
get_friends(user) ==
    [x \in DOMAIN FriendJoinRows(user) |-> 1]

\* send_friend_request (POST)
SendFriendRequest(u, user_id) ==
    /\ IF user_id \notin Users
       THEN /\ msg' = "Error sending friend request"
            /\ UNCHANGED friendVars
       ELSE IF ExistingFriendships(u, user_id) # {}
       THEN /\ \E existing \in ExistingFriendships(u, user_id) :
                 msg' = IF existing.status = "accepted" THEN "You are already friends"
                        ELSE IF existing.status = "pending" THEN "Friend request already sent"
                        ELSE "Cannot send friend request"
            /\ UNCHANGED friendVars
       ELSE /\ next_friendship_id <= MaxFriendshipId
            /\ friendships' = friendships \cup
                   {[friendship_id |-> next_friendship_id, user1 |-> u,
                     user2 |-> user_id, status |-> "pending", accepted_at |-> NULL]}
            /\ next_friendship_id' = next_friendship_id + 1
            /\ msg' = "Friend request sent"
    /\ UNCHANGED <<now, outsideFriend>>

\* respond_friend_request (POST)
RespondFriendRequest(u, fid, action) ==
    /\ IF PendingFor(u, fid) = {}
       THEN /\ msg' = "Error processing friend request"
            /\ UNCHANGED friendVars
       ELSE \E friendship \in PendingFor(u, fid) :
            IF action = "accept"
            THEN /\ friendships' = (friendships \ {friendship}) \cup
                        {[friendship EXCEPT !.status = "accepted", !.accepted_at = now]}
                 /\ msg' = "You are now friends"
                 /\ UNCHANGED next_friendship_id
            ELSE IF action = "reject"
            THEN /\ friendships' = friendships \ {friendship}
                 /\ msg' = "Friend request declined"
                 /\ UNCHANGED next_friendship_id
            ELSE /\ msg' = "none"
                 /\ UNCHANGED friendVars
    /\ UNCHANGED <<now, outsideFriend>>

\* admin site, FriendshipAdmin change form: the status of a row set to blocked
AdminBlockFriendship(fid) ==
    /\ \E f \in friendships :
         /\ f.friendship_id = fid
         /\ f.status # "blocked"
         /\ friendships' = (friendships \ {f}) \cup {[f EXCEPT !.status = "blocked"]}
    /\ UNCHANGED <<now, msg, next_friendship_id, outsideFriend>>

RespondActions == {"accept", "reject", "other"}

FriendNext ==
    \/ \E u \in Befrienders, user_id \in UserIdInputs : SendFriendRequest(u, user_id)
    \/ \E u \in Befrienders, fid \in FriendshipIds, action \in RespondActions :
           RespondFriendRequest(u, fid, action)
    \/ \E fid \in FriendshipIds : AdminBlockFriendship(fid)

FriendSpec == Init /\ [][FriendNext]_vars


\* --------------------------------------------------------- event coordinator
\* x in list
InList(x, list) == \E i \in DOMAIN list : list[i] = x

\* list.remove(x): the first occurrence of x is dropped
list_remove(list, x) ==
    LET k == CHOOSE i \in DOMAIN list :
                 list[i] = x /\ \A j \in DOMAIN list : list[j] = x => i <= j
    IN  [i \in 1..(Len(list) - 1) |-> IF i < k THEN list[i] ELSE list[i + 1]]

\* a plausible slip: the membership test is missing and the organizer is
\* appended on every save
SaveAlwaysAppends(e) ==
    LET ids == Append(e.participant_user_ids, e.organizer)
    IN  [e EXCEPT !.participant_user_ids = ids, !.current_participants = Len(ids)]

\* Event.save: the organizer is put on the roster when missing
EventSave(e) ==
    IF e.participant_user_ids = <<>> \/ ~InList(e.organizer, e.participant_user_ids)
    THEN LET ids == Append(e.participant_user_ids, e.organizer)
         IN  [e EXCEPT !.participant_user_ids = ids, !.current_participants = Len(ids)]
    ELSE e

\* Event.get_current_participants
get_current_participants(e) == Len(e.participant_user_ids)

\* a plausible slip: <= instead of <
can_join_off_by_one(e) == get_current_participants(e) <= e.max_participants

\* Event.can_join
can_join(e) == get_current_participants(e) < e.max_participants

\* a plausible slip: the organizer test compares the wrong thing and never hits
IsNeverOrganizer(e, u) == FALSE

\* event.organizer == request.user
IsOrganizer(e, u) == e.organizer = u

\* a plausible slip: cancelling an already cancelled event re-activates it
CancelToggles(e) ==
    EventSave([e EXCEPT !.status = IF e.status = "cancelled" THEN "active" ELSE "cancelled"])

\* event.status = 'cancelled'; event.save()
CancelledEvent(e) == EventSave([e EXCEPT !.status = "cancelled"])

\* EventActivity.objects.create(user=u, event=eid, activity_type=t)
Activity(u, eid, t) == [user |-> u, event |-> eid, activity_type |-> t]

\* a plausible slip: max_participants is not range-checked
ValidNumbersNoCapacity(hours_from_now, duration_hours, max_participants) ==
    ~(hours_from_now < 0 \/ duration_hours < 1)

\* the range check on the parsed form numbers
ValidNumbers(hours_from_now, duration_hours, max_participants) ==
    ~(hours_from_now < 0 \/ duration_hours < 1 \/ max_participants < 1)

\* POST dashboard, action == 'create_event'
CreateEvent(u, lid, max_participants, hours_from_now, duration_hours) ==
    /\ shares' = SweepExpired(shares)
    /\ IF lid = NoLocation
       THEN /\ msg' = "Please fill in all required fields"
            /\ UNCHANGED eventVars
       ELSE IF ~ValidNumbers(hours_from_now, duration_hours, max_participants)
       THEN /\ msg' = "Please enter valid numbers for timing and participants"
            /\ UNCHANGED eventVars
       ELSE IF lid \notin Locations
       THEN /\ msg' = "Error creating event"
            /\ UNCHANGED eventVars
       ELSE /\ Len(events) < Cardinality(EventIds)
            /\ Len(activities) < MaxActivities
            /\ events' = Append(events, EventSave(
                   [organizer |-> u, location |-> lid,
                    event_start |-> now + hours_from_now,
                    event_end |-> now + hours_from_now + duration_hours,
                    max_participants |-> max_participants,
                    current_participants |-> 1,
                    participant_user_ids |-> <<u>>,
                    status |-> "active", is_started |-> FALSE, started_at |-> NULL]))
            /\ activities' = Append(activities, Activity(u, Len(events) + 1, "created"))
            /\ msg' = "Event created"
    /\ UNCHANGED <<now, outsideEvent>>

\* a plausible slip: the started test is missing
NeverAlreadyStarted(e) == FALSE

\* if event.is_started
AlreadyStarted(e) == e.is_started

\* POST dashboard, action == 'start_event'
StartEvent(u, eid) ==
    /\ shares' = SweepExpired(shares)
    /\ IF eid \notin DOMAIN events \/ events[eid].organizer # u
       THEN /\ msg' = "Error starting event"
            /\ UNCHANGED eventVars
       ELSE IF AlreadyStarted(events[eid])
       THEN /\ msg' = "Event is already started"
            /\ UNCHANGED eventVars
       ELSE /\ Len(activities) < MaxActivities
            /\ events' = [events EXCEPT ![eid] =
                   EventSave([@ EXCEPT !.is_started = TRUE, !.started_at = now])]
            /\ activities' = Append(activities, Activity(u, eid, "started"))
            /\ msg' = "Event started"
    /\ UNCHANGED <<now, outsideEvent>>

\* POST dashboard, action == 'join_event'
JoinEvent(u, eid) ==
    /\ shares' = SweepExpired(shares)
    /\ IF eid \notin DOMAIN events
       THEN /\ msg' = "Error joining event"
            /\ UNCHANGED eventVars
       ELSE IF InList(u, events[eid].participant_user_ids)
       THEN /\ msg' = "You are already participating in this event"
            /\ UNCHANGED eventVars
       ELSE IF ~can_join(events[eid])
       THEN /\ msg' = "Event is full"
            /\ UNCHANGED eventVars
       ELSE /\ Len(activities) < MaxActivities
            /\ LET ids == Append(events[eid].participant_user_ids, u) IN
               events' = [events EXCEPT ![eid] =
                   EventSave([@ EXCEPT !.participant_user_ids = ids,
                                       !.current_participants = Len(ids)])]
            /\ activities' = Append(activities, Activity(u, eid, "joined"))
            /\ msg' = "You joined"
    /\ UNCHANGED <<now, outsideEvent>>

\* POST dashboard, action == 'leave_event'
LeaveEvent(u, eid) ==
    /\ shares' = SweepExpired(shares)
    /\ IF eid \notin DOMAIN events
       THEN /\ msg' = "Error leaving event"
            /\ UNCHANGED eventVars
       ELSE IF ~InList(u, events[eid].participant_user_ids)
       THEN /\ msg' = "You are not participating in this event"
            /\ UNCHANGED eventVars
       ELSE IF IsOrganizer(events[eid], u)
       THEN /\ msg' = "Event organizer cannot leave. Cancel the event instead."
            /\ UNCHANGED eventVars
       ELSE /\ Len(activities) < MaxActivities
            /\ LET ids == list_remove(events[eid].participant_user_ids, u) IN
               events' = [events EXCEPT ![eid] =
                   EventSave([@ EXCEPT !.participant_user_ids = ids,
                                       !.current_participants = Len(ids)])]
            /\ activities' = Append(activities, Activity(u, eid, "left"))
            /\ msg' = "You left"
    /\ UNCHANGED <<now, outsideEvent>>

\* POST dashboard, action == 'cancel_event'
CancelEvent(u, eid) ==
    /\ shares' = SweepExpired(shares)
    /\ IF eid \notin DOMAIN events \/ events[eid].organizer # u
       THEN /\ msg' = "Error cancelling event"
            /\ UNCHANGED eventVars
       ELSE /\ Len(activities) < MaxActivities
            /\ activities' = Append(activities, Activity(u, eid, "cancelled"))
            /\ events' = [events EXCEPT ![eid] = CancelledEvent(@)]
            /\ msg' = "Event cancelled"
    /\ UNCHANGED <<now, outsideEvent>>

EventNext ==
    \/ \E u \in Users, in \in CreateEventInputs :
           CreateEvent(u, in[1], in[2], in[3], in[4])
    \/ \E u \in Users, eid \in EventIdInputs : StartEvent(u, eid)
    \/ \E u \in Users, eid \in EventIdInputs : JoinEvent(u, eid)
    \/ \E u \in Users, eid \in EventIdInputs : LeaveEvent(u, eid)
    \/ \E u \in Users, eid \in EventIdInputs : CancelEvent(u, eid)

EventSpec == Init /\ [][EventNext]_vars

\* ------------------------------------- cancel_event, one write at a time
\* a plausible slip: the status is saved before the activity is logged
CancelSavesFirst == <<"save", "log">>

\* the two writes of cancel_event in program order: the EventActivity row is
\* created first, the event is saved as cancelled second
CancelStepOrder == <<"log", "save">>

\* the k-th write of a cancel_event request of u that loaded row e of event eid
CancelWrite(k, u, eid, e) ==
    IF CancelStepOrder[k] = "log"
    THEN /\ activities' = Append(activities, Activity(u, eid, "cancelled"))
         /\ UNCHANGED events
    ELSE /\ events' = [events EXCEPT ![eid] = CancelledEvent(e)]
         /\ UNCHANGED activities

\* cancel_event up to and including its first write; Http404 for a caller who
\* is not the organizer ends the request with the error message
CancelBegin(u, eid) ==
    /\ cancel_pc = <<>>
    /\ shares' = SweepExpired(shares)
    /\ IF eid \notin DOMAIN events \/ events[eid].organizer # u
       THEN /\ msg' = "Error cancelling event"
            /\ UNCHANGED <<eventVars, cancel_pc>>
       ELSE /\ Len(activities) < MaxActivities
            /\ CancelWrite(1, u, eid, events[eid])
            /\ cancel_pc' = <<u, eid, events[eid]>>
            /\ UNCHANGED msg
    /\ UNCHANGED <<now, outsideEventTables>>

\* the second write of the request and its success message
CancelFinish ==
    /\ cancel_pc # <<>>
    /\ CancelWrite(2, cancel_pc[1], cancel_pc[2], cancel_pc[3])
    /\ msg' = "Event cancelled"
    /\ cancel_pc' = <<>>
    /\ UNCHANGED <<now, shares, outsideEventTables>>

\* the second write raises: except Exception reports the error, and with no
\* transaction around the handler the first write stays
CancelFail ==
    /\ cancel_pc # <<>>
    /\ msg' = "Error cancelling event"
    /\ cancel_pc' = <<>>
    /\ UNCHANGED <<now, shares, eventVars, outsideEventTables>>

CancelStepNext ==
    \/ \E u \in Users, in \in CreateEventInputs :
           CreateEvent(u, in[1], in[2], in[3], in[4])
    \/ \E u \in Users, eid \in EventIdInputs : JoinEvent(u, eid)
    \/ \E u \in Users, eid \in EventIdInputs : CancelBegin(u, eid)
    \/ CancelFinish
    \/ CancelFail

CancelStepSpec == Init /\ [][CancelStepNext]_vars

\* ------------------------------------------- join_event, one step at a time
\* join_pc[r] is <<>> before request r is sent, <<"loaded", user, event_id,
\* row>> after its get_object_or_404, <<"saved", user, event_id, row>> after
\* its event.save(), and <<"done", user, event_id, joined>> after its answer,
\* joined telling whether the answer was the success message

\* the request of u arrives: the sweep of dashboard() and the load of the row;
\* the other request in flight is of a different user
JoinLoad(r, u, eid) ==
    /\ join_pc[r] = <<>>
    /\ \A q \in Requests \ {r} : IF join_pc[q] = <<>> THEN TRUE ELSE join_pc[q][2] # u
    /\ shares' = SweepExpired(shares)
    /\ IF eid \notin DOMAIN events
       THEN /\ msg' = "Error joining event"
            /\ join_pc' = [join_pc EXCEPT ![r] = <<"done", u, eid, FALSE>>]
       ELSE /\ join_pc' = [join_pc EXCEPT ![r] = <<"loaded", u, eid, events[eid]>>]
            /\ UNCHANGED msg
    /\ UNCHANGED <<now, eventVars, outsideJoin>>

\* the membership and capacity tests on the loaded row, the append to its
\* roster and event.save(), which writes every field of the loaded row
JoinSave(r) ==
    /\ join_pc[r] # <<>>
    /\ join_pc[r][1] = "loaded"
    /\ LET u == join_pc[r][2]
           eid == join_pc[r][3]
           e == join_pc[r][4]
       IN  IF InList(u, e.participant_user_ids)
           THEN /\ msg' = "You are already participating in this event"
                /\ join_pc' = [join_pc EXCEPT ![r] = <<"done", u, eid, FALSE>>]
                /\ UNCHANGED events
           ELSE IF ~can_join(e)
           THEN /\ msg' = "Event is full"
                /\ join_pc' = [join_pc EXCEPT ![r] = <<"done", u, eid, FALSE>>]
                /\ UNCHANGED events
           ELSE LET ids == Append(e.participant_user_ids, u)
                    saved == EventSave([e EXCEPT !.participant_user_ids = ids,
                                                 !.current_participants = Len(ids)])
                IN  /\ events' = [events EXCEPT ![eid] = saved]
                    /\ join_pc' = [join_pc EXCEPT ![r] = <<"saved", u, eid, saved>>]
                    /\ UNCHANGED msg
    /\ UNCHANGED <<now, shares, activities, outsideJoin>>

\* the 'joined' activity row and the success message
JoinLog(r) ==
    /\ join_pc[r] # <<>>
    /\ join_pc[r][1] = "saved"
    /\ Len(activities) < MaxActivities
    /\ activities' = Append(activities, Activity(join_pc[r][2], join_pc[r][3], "joined"))
    /\ msg' = "You joined"
    /\ join_pc' = [join_pc EXCEPT ![r] = <<"done", join_pc[r][2], join_pc[r][3], TRUE>>]
    /\ UNCHANGED <<now, shares, events, outsideJoin>>

\* one event and two join requests of different users, their steps in any order
JoinRaceNext ==
    \/ /\ events = <<>>
       /\ \E u \in Users, in \in CreateEventInputs :
             CreateEvent(u, in[1], in[2], in[3], in[4])
    \/ \E r \in Requests, u \in Users, eid \in EventIdInputs : JoinLoad(r, u, eid)
    \/ \E r \in Requests : JoinSave(r)
    \/ \E r \in Requests : JoinLog(r)

JoinRaceSpec == Init /\ [][JoinRaceNext]_vars

\* ------------------------------------------ a walk through the event requests
\* The requests of one organizer O and two other users X and Y on one
\* two-seat event, each sent after the answer to the one before it; the
\* clock may advance between any two of them.
ScenarioNext ==
    \/ /\ msg = "none"
       /\ \E O \in Users : CreateEvent(O, "L1", 2, 0, 1)
    \/ /\ msg = "Event created"
       /\ \E X \in Users \ {events[1].organizer} : JoinEvent(X, 1)
    \/ /\ msg = "You joined"
       /\ \E Y \in Users : /\ ~InList(Y, events[1].participant_user_ids)
                            /\ JoinEvent(Y, 1)
    \/ /\ msg = "Event is full"
       /\ \E X \in Users \ {events[1].organizer} :
             /\ InList(X, events[1].participant_user_ids)
             /\ LeaveEvent(X, 1)
    \/ /\ msg = "You left"
       /\ LeaveEvent(events[1].organizer, 1)
    \/ /\ msg = "Event organizer cannot leave. Cancel the event instead."
       /\ CancelEvent(events[1].organizer, 1)
    \/ Tick

ScenarioSpec == Init /\ [][ScenarioNext]_vars

\* ------------------------------------------------- friends' recent shares
\* a plausible slip: the feed trusts the stored flag and does not test expiry
friends_recent_shares_by_flag(viewer) ==
    {i \in DOMAIN shares :
        /\ shares[i].user \in DOMAIN get_friends(viewer)
        /\ shares[i].is_active
        /\ shares[i].shared_at >= now - RecentShareHours}

\* dashboard (GET): LocationShare.objects.filter(user__in=friends,
\* is_active=True, expires_at__gt=now, shared_at__gte=now-24h); the ids of the
\* rows, of which the page shows the 20 latest
friends_recent_shares(viewer) ==
    {i \in DOMAIN shares :
        /\ shares[i].user \in DOMAIN get_friends(viewer)
        /\ shares[i].is_active
        /\ shares[i].expires_at > now
        /\ shares[i].shared_at >= now - RecentShareHours}

\* Users 1 and 2 share at L1 and may become friends; the clock runs past the
\* expiry of a share
PresenceNext ==
    \/ SendFriendRequest(1, 2)
    \/ RespondFriendRequest(2, 1, "accept")
    \/ \E u \in Sharers : ShareLocation(u, "L1")
    \/ \E u \in Sharers : DashboardGet(u)
    \/ TickUntil(MaxPresenceTime)

PresenceSpec == Init /\ [][PresenceNext]_vars

\* ------------------------------------------------------------------ reviews
\* a plausible slip: the general rating of the form is stored as it came
ReviewSaveKeepsSupplied(r) == r

\* LocationReview.save: general_rating = round((wifi + cleanliness + noise) / 3, 1),
\* held in tenths; a third of an integer is never halfway between two tenths
ReviewSave(r) ==
    [r EXCEPT !.general_rating =
        (20 * (r.wifi_rating + r.cleanliness_rating + r.noise_rating) + 3) \div 6]

\* a plausible slip: the lookup of the existing review finds nothing
ExistingReviewsNone(revs, u, lid) == {}

\* LocationReview.objects.filter(user=u, location=lid)
ExistingReviews(revs, u, lid) ==
    {i \in DOMAIN revs : revs[i].user = u /\ revs[i].location = lid}

\* .first() under Meta.ordering = ['-created_at']
FirstReviewCandidates(revs, ids) ==
    {i \in ids : \A j \in ids : revs[j].created_at <= revs[i].created_at}

\* LocationReview.objects.filter(location=l, created_at__gte=now - 2h)
RecentReviews(revs, l) ==
    {i \in DOMAIN revs :
        revs[i].location = l /\ revs[i].created_at >= now - CrowdWindowHours}

\* iteration of the queryset under Meta.ordering = ['-created_at']: every
\* listing of the ids with the later created_at first
ReviewIterations(revs, ids) ==
    {f \in [1..Cardinality(ids) -> ids] :
        /\ \A i, j \in DOMAIN f : i # j => f[i] # f[j]
        /\ \A i, j \in DOMAIN f :
              i < j => revs[f[i]].created_at >= revs[f[j]].created_at}

\* a plausible slip: the crowd level of the latest review is taken
latest_crowd(revs, order) == revs[order[1]].crowd_level

\* max(crowd_counts.items(), key=lambda x: x[1])[0]: the counts are kept in a
\* dict in the order the levels are met, and max returns the first greatest
most_common_crowd(revs, order) ==
    LET level(k) == revs[order[k]].crowd_level
        levels == {level(k) : k \in DOMAIN order}
        count(v) == Cardinality({k \in DOMAIN order : level(k) = v})
        met(v) == CHOOSE k \in DOMAIN order :
                      level(k) = v /\ \A j \in DOMAIN order : level(j) = v => k <= j
    IN  CHOOSE v \in levels :
            \A w \in levels :
                \/ count(v) > count(w)
                \/ count(v) = count(w) /\ met(v) <= met(w)

\* update_location_crowd_level: the values current_crowd_level of l can have
\* afterwards (one per iteration order the store may choose)
update_location_crowd_level(revs, l) ==
    IF RecentReviews(revs, l) = {}
    THEN {current_crowd_level[l]}
    ELSE {most_common_crowd(revs, order) :
              order \in ReviewIterations(revs, RecentReviews(revs, l))}

\* the fields a submit writes into a review row
ReviewFields(r, form) ==
    [r EXCEPT !.wifi_rating = form[2], !.cleanliness_rating = form[3],
              !.noise_rating = form[4], !.general_rating = form[5],
              !.crowd_level = form[6], !.review_text = form[7]]

\* POST dashboard, action == 'submit_review'
SubmitReview(u, form) ==
    /\ shares' = SweepExpired(shares)
    /\ LET lid == form[1] IN
       IF lid = NoLocation \/ form[6] = ""
       THEN /\ msg' = "Please fill in all required fields"
            /\ UNCHANGED <<reviewVars, review_prompt>>
       ELSE IF form[5] = NULL
       THEN /\ msg' = "Invalid rating values."
            /\ UNCHANGED <<reviewVars, review_prompt>>
       ELSE IF ~(/\ 1 <= form[2] /\ form[2] <= 10 /\ 1 <= form[3] /\ form[3] <= 10
                 /\ 1 <= form[4] /\ form[4] <= 10 /\ 10 <= form[5] /\ form[5] <= 100)
       THEN /\ msg' = "Ratings must be between 1 and 10."
            /\ UNCHANGED <<reviewVars, review_prompt>>
       ELSE IF lid \notin Locations
       THEN /\ msg' = "Error submitting review"
            /\ UNCHANGED <<reviewVars, review_prompt>>
       ELSE LET existing == ExistingReviews(reviews, u, lid) IN
            /\ IF existing # {}
               THEN /\ \E i \in FirstReviewCandidates(reviews, existing) :
                         reviews' = [reviews EXCEPT ![i] =
                             ReviewSave([ReviewFields(@, form) EXCEPT !.created_at = now])]
                    /\ msg' = "Review updated"
               ELSE /\ Len(reviews) < MaxReviews
                    /\ reviews' = Append(reviews, ReviewSave(ReviewFields(
                           [user |-> u, location |-> lid, wifi_rating |-> 5,
                            cleanliness_rating |-> 5, noise_rating |-> 5,
                            general_rating |-> 50, crowd_level |-> "",
                            review_text |-> "", created_at |-> now], form)))
                    /\ msg' = "Review submitted"
            /\ \E level \in update_location_crowd_level(reviews', lid) :
                  current_crowd_level' = [current_crowd_level EXCEPT ![lid] = level]
            /\ review_prompt' = IF review_prompt[u] = lid
                                THEN [review_prompt EXCEPT ![u] = NoLocation]
                                ELSE review_prompt
    /\ UNCHANGED <<now, outsideReview>>

\* update_location_crowd_level(location), called on its own
RecomputeCrowdLevel(l) ==
    /\ \E level \in update_location_crowd_level(reviews, l) :
          current_crowd_level' = [current_crowd_level EXCEPT ![l] = level]
    /\ UNCHANGED <<now, msg, shareVars, reviews, outsideReview>>

ReviewNext ==
    \/ \E u \in Reviewers, form \in ReviewForms : SubmitReview(u, form)
    \/ TickUntil(MaxReviewTime)

ReviewSpec == Init /\ [][ReviewNext]_vars

\* the crowd reports of three users at one location, as they age
CrowdNext ==
    \/ \E u \in Users, form \in CrowdForms : SubmitReview(u, form)
    \/ \E l \in Locations : RecomputeCrowdLevel(l)
    \/ TickUntil(MaxCrowdTime)

CrowdSpec == Init /\ [][CrowdNext]_vars

\* ------------------------------------------------------------------ memories
\* user.is_authenticated; AnonymousUser is NoUser
is_authenticated(user) == user # NoUser

\* a plausible slip: the friends of the author may see a private memory too
can_view_private_to_friends(m, user) ==
    IF ~is_authenticated(user) THEN m.visibility = "public"
    ELSE IF m.visibility = "public" THEN TRUE
    ELSE IF m.visibility \in {"private", "friends"}
    THEN IF m.user = user THEN TRUE ELSE are_friends(m.user, user)
    ELSE FALSE

\* Memory.can_view
can_view(m, user) ==
    IF ~is_authenticated(user) THEN m.visibility = "public"
    ELSE IF m.visibility = "public" THEN TRUE
    ELSE IF m.visibility = "private" THEN m.user = user
    ELSE IF m.visibility = "friends"
    THEN IF m.user = user THEN TRUE ELSE are_friends(m.user, user)
    ELSE FALSE

\* max(0, n)
Max0(n) == IF n < 0 THEN 0 ELSE n

\* a plausible slip: the counter is not touched when a like is withdrawn
toggle_like_keeps_count(m, user) ==
    IF ~is_authenticated(user) THEN <<m, FALSE>>
    ELSE IF InList(user, m.liked_by_user_ids)
    THEN <<[m EXCEPT !.liked_by_user_ids = list_remove(@, user)], FALSE>>
    ELSE <<[m EXCEPT !.liked_by_user_ids = Append(@, user),
                     !.likes_count = @ + 1], TRUE>>

\* Memory.toggle_like: the saved row and the returned is_liked
toggle_like(m, user) ==
    IF ~is_authenticated(user) THEN <<m, FALSE>>
    ELSE IF InList(user, m.liked_by_user_ids)
    THEN <<[m EXCEPT !.liked_by_user_ids = list_remove(@, user),
                     !.likes_count = Max0(@ - 1)], FALSE>>
    ELSE <<[m EXCEPT !.liked_by_user_ids = Append(@, user),
                     !.likes_count = @ + 1], TRUE>>

\* a plausible slip: the counter is set to one instead of being raised
ViewedOnce(m) == [m EXCEPT !.view_count = 1]

\* memory.view_count += 1; memory.save(update_fields=['view_count'])
Viewed(m) == [m EXCEPT !.view_count = @ + 1]

\* a plausible slip: the private branch of the filter is missing
get_visible_memories_no_private(user) ==
    {i \in DOMAIN memories :
        \/ memories[i].visibility = "public"
        \/ memories[i].visibility = "friends"
              /\ memories[i].user \in DOMAIN get_friends(user)
        \/ memories[i].visibility = "friends" /\ memories[i].user = user}

\* MemoryManager.get_visible_memories: the ids of the rows the filter keeps
get_visible_memories(user) ==
    {i \in DOMAIN memories :
        \/ memories[i].visibility = "public"
        \/ memories[i].visibility = "friends"
              /\ memories[i].user \in DOMAIN get_friends(user)
        \/ memories[i].visibility = "friends" /\ memories[i].user = user
        \/ memories[i].visibility = "private" /\ memories[i].user = user}

\* .order_by('-creation_date'): every listing of ids with the later
\* creation_date first; the store orders rows of equal date as it likes
order_by_creation_date_desc(ids) ==
    {f \in [1..Cardinality(ids) -> ids] :
        /\ \A i, j \in DOMAIN f : i # j => f[i] # f[j]
        /\ \A i, j \in DOMAIN f :
              i < j => memories[f[i]].creation_date >= memories[f[j]].creation_date}

\* memories_feed (GET): get_visible_memories(user).filter(is_archived=False)
memories_feed(user) ==
    order_by_creation_date_desc(
        {i \in get_visible_memories(user) : ~memories[i].is_archived})

\* Memory.objects.create(user=u, location=lid, visibility=visibility, ...)
NewMemory(u, lid, visibility) ==
    [user |-> u, location |-> lid, visibility |-> visibility,
     is_archived |-> FALSE, liked_by_user_ids |-> <<>>, likes_count |-> 0,
     view_count |-> 0, creation_date |-> now]

\* memories_feed (POST), action == 'create_memory'
CreateMemory(u, lid, visibility) ==
    /\ IF lid = NoLocation
       THEN /\ msg' = "Please fill in all required fields"
            /\ UNCHANGED memories
       ELSE IF lid \notin Locations
       THEN /\ msg' = "Error creating memory"
            /\ UNCHANGED memories
       ELSE /\ Len(memories) < Cardinality(MemoryIds)
            /\ memories' = Append(memories, NewMemory(u, lid, visibility))
            /\ msg' = "Memory created"
    /\ UNCHANGED <<now, outsideMemory>>

\* memories_feed (POST), action == 'toggle_like'
ToggleLike(u, mid) ==
    /\ IF mid \notin DOMAIN memories
       THEN /\ msg' = "Error processing like"
            /\ UNCHANGED memories
       ELSE IF can_view(memories[mid], u)
       THEN LET r == toggle_like(memories[mid], u) IN
            /\ memories' = [memories EXCEPT ![mid] = r[1]]
            /\ msg' = IF r[2] THEN "Memory liked!" ELSE "Like removed"
       ELSE /\ msg' = "You cannot like this memory"
            /\ UNCHANGED memories
    /\ UNCHANGED <<now, outsideMemory>>

\* my_memories (POST), action == 'archive_memory'
ArchiveMemory(u, mid) ==
    /\ IF mid \notin DOMAIN memories \/ memories[mid].user # u
       THEN /\ msg' = "Error archiving memory"
            /\ UNCHANGED memories
       ELSE /\ memories' = [memories EXCEPT ![mid].is_archived = ~@]
            /\ msg' = IF memories[mid].is_archived THEN "Memory restored"
                      ELSE "Memory archived"
    /\ UNCHANGED <<now, outsideMemory>>

\* my_memories (POST), action == 'update_visibility'
UpdateVisibility(u, mid, new_visibility) ==
    /\ IF mid \notin DOMAIN memories \/ memories[mid].user # u
       THEN /\ msg' = "Error updating visibility"
            /\ UNCHANGED memories
       ELSE IF new_visibility \in VISIBILITY_CHOICES
       THEN /\ memories' = [memories EXCEPT ![mid].visibility = new_visibility]
            /\ msg' = "Memory visibility updated"
       ELSE /\ msg' = "Invalid visibility option"
            /\ UNCHANGED memories
    /\ UNCHANGED <<now, outsideMemory>>

\* memory_detail_ajax (POST); msg holds the JSON answer
MemoryDetail(u, mid) ==
    /\ IF mid \notin DOMAIN memories
       THEN /\ msg' = "Error loading memory details"
            /\ UNCHANGED memories
       ELSE IF ~can_view(memories[mid], u)
       THEN /\ msg' = "Permission denied"
            /\ UNCHANGED memories
       ELSE /\ memories[mid].view_count < MaxViews
            /\ memories' = [memories EXCEPT ![mid] = Viewed(@)]
            /\ msg' = "memory_data"
    /\ UNCHANGED <<now, outsideMemory>>

\* One memory, liked and viewed by the three users; users 1 and 2 may become
\* friends, user 3 stays a stranger to both.
MemoryNext ==
    \/ /\ memories = <<>>
       /\ \E u \in Users, lid \in MemoryLocationInputs, visibility \in VisibilityInputs :
             CreateMemory(u, lid, visibility)
    \/ \E u \in Users, mid \in MemoryIdInputs : ToggleLike(u, mid)
    \/ \E u \in Users, mid \in MemoryIdInputs : ArchiveMemory(u, mid)
    \/ \E u \in Users, mid \in MemoryIdInputs, visibility \in VisibilityInputs :
           UpdateVisibility(u, mid, visibility)
    \/ \E u \in Users, mid \in MemoryIdInputs : MemoryDetail(u, mid)
    \/ SendFriendRequest(1, 2)
    \/ RespondFriendRequest(2, 1, "accept")

MemorySpec == Init /\ [][MemoryNext]_vars

\* Two memories of users 1 and 2, created at different or equal times, as
\* the feed lists them to the three users
FeedNext ==
    \/ \E u \in Befrienders, lid \in MemoryLocationInputs, visibility \in VisibilityInputs :
           CreateMemory(u, lid, visibility)
    \/ \E u \in Befrienders, mid \in MemoryIdInputs : ArchiveMemory(u, mid)
    \/ \E u \in Befrienders, mid \in MemoryIdInputs, visibility \in VisibilityInputs :
           UpdateVisibility(u, mid, visibility)
    \/ SendFriendRequest(1, 2)
    \/ RespondFriendRequest(2, 1, "accept")
    \/ now < MaxFeedTime /\ Tick

FeedSpec == Init /\ [][FeedNext]_vars

\* --------------------------------------------------------- friendship claims
\* some Friendship row links a and b, in either direction, whatever its status
RelationBetween(F, a, b) ==
    \E f \in F : \/ f.user1 = a /\ f.user2 = b
                 \/ f.user1 = b /\ f.user2 = a

ConflictMessages ==
    {"You are already friends", "Friend request already sent", "Cannot send friend request"}

\* C3: after any sequence of request and respond operations there is at most
\* one Friendship row per unordered pair of users; rows (a,b) and (b,a) never
\* coexist, whatever their status.
C3_OneRowPerPair ==
    \A f, g \in friendships :
        f # g => {f.user1, f.user2} # {g.user1, g.user2}

\* a request in the opposite direction of a stored row has been turned down
C3_Witness ==
    /\ \E f \in friendships : f.user1 # f.user2 /\ f.status = "pending"
    /\ Cardinality(friendships) = 2
    /\ msg = "Friend request already sent"

\* C4: request(a,b) is refused with a conflict message and writes nothing when
\* a row between a and b exists in either direction with any status (pending,
\* accepted or blocked); otherwise it adds exactly one row (a, b, pending).
C4_RequestConflictOrCreate ==
    [][\A a \in Users, b \in Users :
        SendFriendRequest(a, b) =>
            IF RelationBetween(friendships, a, b)
            THEN /\ friendships' = friendships
                 /\ next_friendship_id' = next_friendship_id
                 /\ msg' \in ConflictMessages
            ELSE \E f \in friendships' :
                    /\ f \notin friendships
                    /\ friendships' = friendships \cup {f}
                    /\ f.user1 = a /\ f.user2 = b /\ f.status = "pending"]_vars

\* a request met a blocked row and was refused
C4_Witness ==
    /\ \E f \in friendships : f.status = "blocked"
    /\ msg = "Cannot send friend request"

\* C5: respond(id, responder, decision) writes nothing unless the row exists,
\* responder is its user2 and its status is pending; then accept sets
\* status=accepted and accepted_at=now, and reject deletes the row, leaving no
\* row between the two users (so a new request between them can be created).
C5_RespondGuardedAndEffect ==
    [][\A u \in Users, fid \in FriendshipIds, action \in RespondActions :
        \/ IF \E f \in friendships :
                  f.friendship_id = fid /\ f.user2 = u /\ f.status = "pending"
           THEN \E f \in friendships :
                  /\ f.friendship_id = fid
                  /\ action = "accept" =>
                       friendships' = (friendships \ {f}) \cup
                           {[f EXCEPT !.status = "accepted", !.accepted_at = now]}
                  /\ action = "reject" =>
                       /\ friendships' = friendships \ {f}
                       /\ ~RelationBetween(friendships', f.user1, f.user2)
                       /\ ~RelationBetween(friendships', f.user2, f.user1)
           ELSE friendships' = friendships
        \/ ~RespondFriendRequest(u, fid, action)]_vars

\* a pending request has been rejected and its row is gone
C5_Witness ==
    /\ msg = "Friend request declined"
    /\ next_friendship_id = 2
    /\ friendships = {}

\* C6: once b has accepted a's request, are_friends(a,b) and are_friends(b,a)
\* hold and each of the two is in the other's get_friends exactly once; in
\* every state are_friends is symmetric.
C6_FriendsSymmetric ==
    /\ \A f \in friendships :
          f.status = "accepted" =>
              /\ are_friends(f.user1, f.user2)
              /\ are_friends(f.user2, f.user1)
              /\ CopiesIn(f.user2, get_friends(f.user1)) = 1
              /\ CopiesIn(f.user1, get_friends(f.user2)) = 1
    /\ \A a, b \in Users : are_friends(a, b) = are_friends(b, a)

\* b has just accepted a's request while holding a second relation
C6_Witness ==
    /\ msg = "You are now friends"
    /\ \E f, g \in friendships :
          /\ f # g
          /\ f.status = "accepted" /\ f.user1 # f.user2
          /\ g.user1 = f.user2

\* -------------------------------------------------------------- event claims
\* C7: in every reachable state of every event the organizer is on the
\* roster, the roster is no longer than max_participants, and
\* current_participants equals the roster length.
C7_RosterInvariant ==
    \A eid \in DOMAIN events :
        /\ InList(events[eid].organizer, events[eid].participant_user_ids)
        /\ Len(events[eid].participant_user_ids) <= events[eid].max_participants
        /\ events[eid].current_participants = Len(events[eid].participant_user_ids)

\* a full two-seat event that somebody has joined, left and joined again
C7_Witness ==
    \E eid \in DOMAIN events :
        /\ Len(events[eid].participant_user_ids) = 2
        /\ events[eid].max_participants = 2
        /\ \E i, j \in DOMAIN activities :
              /\ i < j
              /\ activities[i].event = eid /\ activities[i].activity_type = "left"
              /\ activities[j].event = eid /\ activities[j].activity_type = "joined"

\* join(u, eid) left the roster, the count and the activity log alone
JoinChangedNothing(eid) ==
    /\ events'[eid].participant_user_ids = events[eid].participant_user_ids
    /\ events'[eid].current_participants = events[eid].current_participants
    /\ activities' = activities

\* C8 as stated: for every user, join() on an event whose roster length is
\* >= max_participants reports 'Event is full' and changes neither the roster
\* nor the count nor the activity log.
C8_JoinFullAlwaysCapacity ==
    [][\A u \in Users, eid \in DOMAIN events :
        (JoinEvent(u, eid) /\
         Len(events[eid].participant_user_ids) >= events[eid].max_participants)
            => /\ msg' = "Event is full"
               /\ JoinChangedNothing(eid)]_vars

\* C8 amended: on a full event join() changes neither the roster nor the
\* count nor the activity log; it reports 'Event is full' to a user who is not
\* on the roster and 'already participating' to one who is.
C8_JoinFullNoChange ==
    [][\A u \in Users, eid \in DOMAIN events :
        (JoinEvent(u, eid) /\
         Len(events[eid].participant_user_ids) >= events[eid].max_participants)
            => /\ JoinChangedNothing(eid)
               /\ msg' = IF InList(u, events[eid].participant_user_ids)
                         THEN "You are already participating in this event"
                         ELSE "Event is full"]_vars

\* a join has been refused on a full two-seat event
C8_Witness ==
    /\ msg = "Event is full"
    /\ \E eid \in DOMAIN events :
          /\ events[eid].max_participants = 2
          /\ Len(events[eid].participant_user_ids) = 2

\* C9: leave(event, user) is refused and changes nothing for the organizer,
\* changes nothing for a user who is not on the roster, and otherwise removes
\* exactly that user, sets current_participants to the new roster length and
\* appends one 'left' activity.
C9_LeaveEffect ==
    [][\A u \in Users, eid \in DOMAIN events :
        LeaveEvent(u, eid) =>
            LET ids == events[eid].participant_user_ids
                ids2 == events'[eid].participant_user_ids
            IN  IF events[eid].organizer = u
                THEN /\ msg' = "Event organizer cannot leave. Cancel the event instead."
                     /\ events' = events /\ activities' = activities
                ELSE IF ~InList(u, ids)
                THEN /\ msg' = "You are not participating in this event"
                     /\ events' = events /\ activities' = activities
                ELSE /\ ~InList(u, ids2)
                     /\ Len(ids2) = Len(ids) - 1
                     /\ \A x \in Users \ {u} : InList(x, ids) <=> InList(x, ids2)
                     /\ events'[eid].current_participants = Len(ids2)
                     /\ events' = [events EXCEPT ![eid] =
                            [@ EXCEPT !.participant_user_ids = ids2,
                                      !.current_participants = Len(ids2)]]
                     /\ activities' = Append(activities,
                            [user |-> u, event |-> eid, activity_type |-> "left"])]_vars

\* the organizer's leave has been refused on an event another user had joined
C9_Witness ==
    /\ msg = "Event organizer cannot leave. Cancel the event instead."
    /\ \E i \in DOMAIN activities : activities[i].activity_type = "left"

\* C10: an event's status changes only from active to cancelled or completed,
\* and its is_started flag never returns from true to false; no event row
\* disappears.
C10_StatusOneWay ==
    [][\A eid \in DOMAIN events :
        /\ eid \in DOMAIN events'
        /\ events'[eid].status # events[eid].status =>
              /\ events[eid].status = "active"
              /\ events'[eid].status \in {"cancelled", "completed"}
        /\ events[eid].is_started => events'[eid].is_started]_vars

\* a started and cancelled event on which a later request has acted
C10_Witness ==
    \E eid \in DOMAIN events :
        /\ events[eid].status = "cancelled"
        /\ events[eid].is_started
        /\ \E i, j \in DOMAIN activities :
              /\ i < j
              /\ activities[i].event = eid /\ activities[i].activity_type = "cancelled"
              /\ activities[j].event = eid

\* C11: cancel(event, caller) changes nothing unless caller is the organizer;
\* for the organizer the 'cancelled' activity is appended first and the status
\* is set to cancelled second, so a failure between the two writes leaves a
\* 'cancelled' activity on an event whose status is what it was before.
C11_CancelLogsThenSaves ==
    [][/\ \A u \in Users, eid \in EventIdInputs :
            CancelBegin(u, eid) =>
                IF eid \in DOMAIN events /\ events[eid].organizer = u
                THEN /\ activities' = Append(activities,
                            [user |-> u, event |-> eid, activity_type |-> "cancelled"])
                     /\ events' = events
                ELSE /\ events' = events /\ activities' = activities
                     /\ msg' = "Error cancelling event"
       /\ CancelFinish =>
            /\ events'[cancel_pc[2]].status = "cancelled"
            /\ activities' = activities
       /\ CancelFail =>
            /\ events' = events /\ activities' = activities
            /\ \E i \in DOMAIN activities' :
                  /\ activities'[i].event = cancel_pc[2]
                  /\ activities'[i].activity_type = "cancelled"
            /\ events'[cancel_pc[2]].status = cancel_pc[3].status]_vars

\* a cancel request has failed after its first write: the log says
\* 'cancelled' and the event is still active
C11_Witness ==
    /\ msg = "Error cancelling event"
    /\ cancel_pc = <<>>
    /\ \E eid \in DOMAIN events :
          /\ events[eid].status = "active"
          /\ \E i \in DOMAIN activities :
                /\ activities[i].event = eid
                /\ activities[i].activity_type = "cancelled"

\* C12: start(event, caller) changes nothing unless caller is the organizer;
\* on an already started event it appends no activity and leaves started_at
\* alone; otherwise it sets is_started, records started_at and appends exactly
\* one 'started' activity; an event never has more than one 'started' activity.
C12_StartOnce ==
    /\ [](\A eid \in DOMAIN events :
            Cardinality({i \in DOMAIN activities :
                /\ activities[i].event = eid
                /\ activities[i].activity_type = "started"}) <= 1)
    /\ [][\A u \in Users, eid \in EventIdInputs :
            StartEvent(u, eid) =>
                IF eid \notin DOMAIN events \/ events[eid].organizer # u
                THEN events' = events /\ activities' = activities
                ELSE IF events[eid].is_started
                THEN /\ events' = events /\ activities' = activities
                     /\ events'[eid].started_at = events[eid].started_at
                ELSE /\ events' = [events EXCEPT ![eid] =
                            [@ EXCEPT !.is_started = TRUE, !.started_at = now]]
                     /\ events[eid].started_at = NULL
                     /\ activities' = Append(activities,
                            [user |-> u, event |-> eid, activity_type |-> "started"])]_vars

\* a second start of a started event has been answered
C12_Witness ==
    /\ msg = "Event is already started"
    /\ \E eid \in DOMAIN events :
          /\ events[eid].is_started
          /\ events[eid].started_at # NULL
          /\ \E i \in DOMAIN activities :
                /\ activities[i].event = eid
                /\ activities[i].activity_type = "started"

\* the activity types of the log, oldest first
ActivityTypes == [i \in DOMAIN activities |-> activities[i].activity_type]

\* C13: organizer O creates event E with capacity 2; X joins, roster [O,X];
\* Y's join fails with Capacity; X leaves, roster [O]; O's leave fails with
\* Forbidden; O cancels, status cancelled; the activity log is then exactly
\* [created, joined, left, cancelled] in chronological order.
C13_Scenario ==
    [][now' = now =>
        LET O == events'[1].organizer
            roster == events'[1].participant_user_ids
        IN  /\ msg = "none" =>
                /\ msg' = "Event created"
                /\ Len(events') = 1 /\ events'[1].max_participants = 2
                /\ roster = <<O>> /\ events'[1].status = "active"
            /\ msg = "Event created" =>
                /\ msg' = "You joined"
                /\ Len(roster) = 2 /\ roster[1] = O /\ roster[2] # O
                /\ events'[1].current_participants = 2
            /\ msg = "You joined" =>
                /\ msg' = "Event is full"
                /\ events' = events /\ activities' = activities
            /\ msg = "Event is full" =>
                /\ msg' = "You left"
                /\ roster = <<O>> /\ events'[1].current_participants = 1
            /\ msg = "You left" =>
                /\ msg' = "Event organizer cannot leave. Cancel the event instead."
                /\ events' = events /\ activities' = activities
            /\ msg = "Event organizer cannot leave. Cancel the event instead." =>
                /\ msg' = "Event cancelled"
                /\ events'[1].status = "cancelled" /\ roster = <<O>>
                /\ Len(activities') = 4
                /\ [i \in 1..4 |-> activities'[i].activity_type] =
                       <<"created", "joined", "left", "cancelled">>
                /\ activities'[1].user = O /\ activities'[4].user = O
                /\ activities'[2].user = activities'[3].user
                /\ activities'[2].user # O
                /\ \A i \in 1..4 : activities'[i].event = 1]_vars

\* the walk has reached its end, some time after it began
C13_Witness ==
    /\ msg = "Event cancelled"
    /\ now > 0
    /\ events[1].status = "cancelled"
    /\ ActivityTypes = <<"created", "joined", "left", "cancelled">>

\* the last row of the event table after the step is a fresh event of u and
\* the log has one more entry, its 'created' activity
FreshEventOf(u) ==
    LET eid == Len(events')
        e == events'[eid]
    IN  /\ eid = Len(events) + 1
        /\ \A k \in DOMAIN events : events'[k] = events[k]
        /\ e.organizer = u
        /\ e.status = "active"
        /\ e.is_started = FALSE
        /\ e.participant_user_ids = <<u>>
        /\ e.current_participants = 1
        /\ e.event_end > e.event_start
        /\ activities' = Append(activities,
               [user |-> u, event |-> eid, activity_type |-> "created"])

\* C14 as stated: create(organizer, location, window, capacity) creates no
\* event and no activity when capacity < 1 or the window end is not after its
\* start; in every other case the new event has status active,
\* is_started=false, roster [organizer], current_participants=1, end > start
\* and one 'created' activity.
C14_CreateUnlessCapacityOrWindow ==
    [][\A u \in Users, in \in CreateEventInputs :
        in[1] \in Locations =>
            LET event_start == now + in[3]
                event_end == now + in[3] + in[4]
            IN  \/ IF in[2] < 1 \/ event_end <= event_start
                   THEN events' = events /\ activities' = activities
                   ELSE FreshEventOf(u)
                \/ ~CreateEvent(u, in[1], in[2], in[3], in[4])]_vars

\* C14 amended: create also creates nothing when the window starts before
\* the current time; for an existing location and every other input the new
\* event is as stated.
C14_CreateEffect ==
    [][\A u \in Users, in \in CreateEventInputs :
        in[1] \in Locations =>
            LET event_start == now + in[3]
                event_end == now + in[3] + in[4]
            IN  \/ IF in[2] < 1 \/ event_end <= event_start \/ event_start < now
                   THEN events' = events /\ activities' = activities
                   ELSE FreshEventOf(u)
                \/ ~CreateEvent(u, in[1], in[2], in[3], in[4])]_vars

\* a create with bad numbers has been refused after a good one was stored
C14_Witness ==
    /\ msg = "Please enter valid numbers for timing and participants"
    /\ Len(events) = 1 /\ Len(activities) = 1
    /\ events[1].participant_user_ids = <<events[1].organizer>>
    /\ activities[1].activity_type = "created"

\* an accepted Friendship row links a and b, in either direction
AcceptedBetween(a, b) ==
    \E f \in friendships :
        /\ f.status = "accepted"
        /\ {f.user1, f.user2} = {a, b}

\* C15: canView(memory, viewer) is true exactly when the memory is public, or
\* private and the viewer is its authenticated author, or friends-only and
\* the viewer is its authenticated author or a friend of the author; for an
\* unauthenticated viewer only public memories are viewable.
C15_CanViewTable ==
    \A mid \in DOMAIN memories, viewer \in Users \cup {NoUser} :
        LET m == memories[mid]
            authenticated == viewer \in Users
        IN  /\ can_view(m, viewer) <=>
                \/ m.visibility = "public"
                \/ m.visibility = "private" /\ authenticated /\ viewer = m.user
                \/ /\ m.visibility = "friends" /\ authenticated
                   /\ viewer = m.user \/ AcceptedBetween(m.user, viewer)
            /\ ~authenticated => (can_view(m, viewer) <=> m.visibility = "public")
            /\ m.visibility = "private" =>
                  \A v \in (Users \cup {NoUser}) \ {m.user} : ~can_view(m, v)

\* a private memory of one friend and a friends-only memory of the other
C15_Witness ==
    /\ AcceptedBetween(1, 2)
    /\ \E i, j \in DOMAIN memories :
          /\ memories[i].visibility = "private" /\ memories[i].user = 1
          /\ memories[j].visibility = "friends" /\ memories[j].user = 2
          /\ can_view(memories[j], 1) /\ ~can_view(memories[i], 2)
          /\ ~can_view(memories[j], 3)

\* feed lists exactly the ids of the set expected, each once, the later
\* creation_date first
ListsNewestFirst(feed, expected) ==
    /\ {feed[k] : k \in DOMAIN feed} = expected
    /\ Len(feed) = Cardinality(expected)
    /\ \A k \in 1..(Len(feed) - 1) :
          memories[feed[k]].creation_date >= memories[feed[k + 1]].creation_date

\* C16 as stated: the feed of a viewer holds exactly every public
\* non-archived memory, every friends-only non-archived memory of the viewer
\* or of a friend of the viewer, and every private memory of the viewer
\* (archived or not), newest first.
C16_FeedWithArchivedPrivate ==
    \A viewer \in Users :
        /\ memories_feed(viewer) # {}
        /\ \A feed \in memories_feed(viewer) :
              ListsNewestFirst(feed,
                  {i \in DOMAIN memories :
                      LET m == memories[i] IN
                      \/ m.visibility = "public" /\ ~m.is_archived
                      \/ /\ m.visibility = "friends" /\ ~m.is_archived
                         /\ m.user = viewer \/ AcceptedBetween(m.user, viewer)
                      \/ m.visibility = "private" /\ m.user = viewer})

\* C16 amended: the private memories of the viewer are listed only while
\* they are not archived, like the public and the friends-only ones.
C16_FeedNonArchived ==
    \A viewer \in Users :
        /\ memories_feed(viewer) # {}
        /\ \A feed \in memories_feed(viewer) :
              ListsNewestFirst(feed,
                  {i \in DOMAIN memories :
                      LET m == memories[i] IN
                      /\ ~m.is_archived
                      /\ \/ m.visibility = "public"
                         \/ /\ m.visibility = "friends"
                            /\ m.user = viewer \/ AcceptedBetween(m.user, viewer)
                         \/ m.visibility = "private" /\ m.user = viewer})

\* user 1 has an archived private memory and a later friends-only memory of
\* their friend: the feed of user 1 lists the second one only
C16_Witness ==
    /\ AcceptedBetween(1, 2)
    /\ Len(memories) = 2
    /\ memories[1].user = 1 /\ memories[1].visibility = "private"
    /\ memories[1].is_archived
    /\ memories[2].user = 2 /\ memories[2].visibility = "friends"
    /\ memories[2].creation_date > memories[1].creation_date
    /\ memories_feed(1) = {<<2>>}
    /\ memories_feed(3) = {<<>>}

\* C17: toggleLike(memory, user) by an authenticated user flips the membership
\* of the user's id in liked_by_user_ids and answers true exactly when the id
\* is in the list afterwards; likes_count always equals the length of the
\* liker list and is never below zero; two toggles in a row by one user
\* restore the membership of every user and the count.
C17_ToggleLike ==
    /\ [](\A mid \in DOMAIN memories :
            LET m == memories[mid] IN
            /\ m.likes_count = Len(m.liked_by_user_ids)
            /\ m.likes_count >= 0
            /\ \A u \in Users :
                  LET twice == toggle_like(toggle_like(m, u)[1], u)[1] IN
                  /\ twice.likes_count = m.likes_count
                  /\ \A x \in Users : InList(x, twice.liked_by_user_ids)
                                          <=> InList(x, m.liked_by_user_ids))
    /\ [][\A u \in Users, mid \in DOMAIN memories :
            ToggleLike(u, mid) /\ can_view(memories[mid], u) =>
                LET before == memories[mid].liked_by_user_ids
                    after == memories'[mid].liked_by_user_ids
                IN  /\ InList(u, after) <=> ~InList(u, before)
                    /\ \A x \in Users \ {u} : InList(x, after) <=> InList(x, before)
                    /\ msg' = "Memory liked!" <=> InList(u, after)
                    /\ msg' = "Like removed" <=> ~InList(u, after)
                    /\ memories'[mid].likes_count = Len(after)]_vars

\* one of two likes has been withdrawn
C17_Witness ==
    /\ msg = "Like removed"
    /\ \E mid \in DOMAIN memories :
          /\ memories[mid].likes_count = 1
          /\ Len(memories[mid].liked_by_user_ids) = 1

\* C18: view_count is a monotonic counter: every permitted memory-detail
\* request, also a repeated one by the same viewer, raises it by exactly one,
\* and no request lowers it.
C18_ViewCountMonotonic ==
    [][\A mid \in DOMAIN memories :
        /\ mid \in DOMAIN memories'
        /\ memories'[mid].view_count >= memories[mid].view_count
        /\ \A u \in Users :
              MemoryDetail(u, mid) /\ can_view(memories[mid], u) =>
                  memories'[mid].view_count = memories[mid].view_count + 1]_vars

\* a private memory, which only its author can open, has been opened twice
C18_Witness ==
    /\ msg = "memory_data"
    /\ \E mid \in DOMAIN memories :
          /\ memories[mid].visibility = "private"
          /\ memories[mid].view_count = 2
          /\ \A u \in Users \ {memories[mid].user} : ~can_view(memories[mid], u)

\* the number of rows of table s at location l that are active and unexpired
LiveAt(s, l) ==
    Cardinality({i \in DOMAIN s :
        s[i].location = l /\ s[i].is_active = TRUE /\ s[i].expires_at > now})

\* share(user, L, status) at an existing L: every earlier share of the user is
\* inactive afterwards, one active share at L expiring in four hours is
\* added, and L.active_users_count is the number of live shares at L
SharedAt(u, lid) ==
    /\ Len(shares') = Len(shares) + 1
    /\ \A i \in DOMAIN shares :
          /\ shares[i].user = u => shares'[i].is_active = FALSE
          /\ [shares'[i] EXCEPT !.is_active = TRUE] = [shares[i] EXCEPT !.is_active = TRUE]
    /\ shares'[Len(shares')] =
          [user |-> u, location |-> lid, shared_at |-> now,
           expires_at |-> now + 4, is_active |-> TRUE]
    /\ active_users_count'[lid] = LiveAt(shares', lid)
    /\ \A l \in Locations \ {lid} : active_users_count'[l] = active_users_count[l]

\* C19 as stated: share at an existing location has the effect above; when
\* the location does not exist an error is reported and every share of the
\* user is left as it was.
C19_ShareOrLeaveUntouched ==
    [][\A u \in Sharers, lid \in Locations \cup {BadLocation} :
        \/ IF lid \in Locations
           THEN SharedAt(u, lid)
           ELSE /\ msg' = "Invalid location selected"
                /\ Len(shares') = Len(shares)
                /\ \A i \in DOMAIN shares : shares[i].user = u => shares'[i] = shares[i]
        \/ ~ShareLocation(u, lid)]_vars

\* C19 amended: when the location does not exist an error is reported, no
\* share is added and the user's shares are as they were, except that the
\* expiry sweep at the start of the request has set is_active to false on
\* those that had expired.
C19_ShareEffect ==
    [][\A u \in Sharers, lid \in Locations \cup {BadLocation} :
        \/ IF lid \in Locations
           THEN SharedAt(u, lid)
           ELSE /\ msg' = "Invalid location selected"
                /\ Len(shares') = Len(shares)
                /\ active_users_count' = active_users_count
                /\ \A i \in DOMAIN shares :
                      shares[i].user = u =>
                          shares'[i] =
                              IF shares[i].is_active /\ shares[i].expires_at <= now
                              THEN [shares[i] EXCEPT !.is_active = FALSE]
                              ELSE shares[i]
        \/ ~ShareLocation(u, lid)]_vars

\* a share at an unknown location has been refused while the user's share
\* at a known one goes on
C19_Witness ==
    /\ msg = "Invalid location selected"
    /\ \E i \in DOMAIN shares :
          /\ shares[i].is_active /\ shares[i].expires_at > now
          /\ active_users_count[shares[i].location] = 1
          /\ \E j \in DOMAIN shares :
                j < i /\ shares[j].user = shares[i].user /\ ~shares[j].is_active

\* C20: stop(user) leaves the user with no active share; when the user had an
\* active unexpired share at L, L.active_users_count becomes the number of
\* active unexpired shares at L and L becomes the user's pending review
\* prompt; when the user had none, no count and no review prompt changes.
C20_StopEffect ==
    [][\A u \in Sharers :
        \/ /\ \A i \in DOMAIN shares' : shares'[i].user = u => ~shares'[i].is_active
           /\ LET had == {i \in DOMAIN shares :
                              /\ shares[i].user = u /\ shares[i].is_active
                              /\ shares[i].expires_at > now}
              IN  IF had = {}
                  THEN /\ active_users_count' = active_users_count
                       /\ review_prompt' = review_prompt
                  ELSE \E i \in had :
                         LET L == shares[i].location IN
                         /\ active_users_count'[L] = LiveAt(shares', L)
                         /\ \A l \in Locations \ {L} :
                               active_users_count'[l] = active_users_count[l]
                         /\ review_prompt'[u] = L
                         /\ \A x \in Users \ {u} : review_prompt'[x] = review_prompt[x]
        \/ ~StopSharing(u)]_vars

\* one user has stopped a live share and is asked for a review of its
\* location, while the other user's stop found nothing and set no prompt
C20_Witness ==
    /\ msg = "Location sharing stopped"
    /\ \A i \in DOMAIN shares : ~shares[i].is_active
    /\ \E u, x \in Sharers :
          /\ review_prompt[u] \in Locations
          /\ \E i \in DOMAIN shares : shares[i].user = u
          /\ review_prompt[x] = NoLocation

\* C21: the expiry sweep at the start of every dashboard request leaves no
\* share that is active with expires_at <= now; it changes nothing but the
\* is_active flag of such shares and leaves every share with expires_at > now
\* untouched.
C21_SweepEffect ==
    [][/\ now' = now =>
            \A i \in DOMAIN shares' :
                ~(shares'[i].is_active /\ shares'[i].expires_at <= now)
       /\ \A u \in Sharers :
            DashboardGet(u) =>
                /\ Len(shares') = Len(shares)
                /\ \A i \in DOMAIN shares :
                      /\ shares[i].expires_at > now => shares'[i] = shares[i]
                      /\ ~shares[i].is_active => shares'[i] = shares[i]
                      /\ [shares'[i] EXCEPT !.is_active = TRUE]
                             = [shares[i] EXCEPT !.is_active = TRUE]]_vars

\* a plain dashboard visit has switched off the only share of one user, which
\* had run out, and has left the live share of another user alone
C21_Witness ==
    /\ msg = "none"
    /\ review_prompt = [u \in Users |-> NoLocation]
    /\ \E i, j \in DOMAIN shares :
          /\ shares[i].user # shares[j].user
          /\ ~shares[i].is_active /\ shares[i].expires_at <= now
          /\ shares[j].is_active /\ shares[j].expires_at > now

\* C29: after any sequence of completed share and stop requests of any users
\* across the locations, while no share has passed its expiry, every
\* location's active_users_count equals the number of its shares that are
\* active and unexpired, also at the location a user has just left by sharing
\* elsewhere.
C29_CountsMatchEverywhere ==
    (\A i \in DOMAIN shares : shares[i].expires_at > now) =>
        \A l \in Locations : active_users_count[l] = LiveAt(shares, l)

\* C22: a share is in a viewer's friend feed only if sharer and viewer are
\* friends (an accepted relation in either direction), the share is active
\* and expires_at > now; so a share created at t0 that expires at t0+4 is in
\* nobody's feed from t0+5 on, whatever its stored flag.
C22_FriendFeedOnlyLiveFriends ==
    \A viewer \in Users, i \in DOMAIN shares :
        /\ i \in friends_recent_shares(viewer) =>
              /\ AcceptedBetween(shares[i].user, viewer)
              /\ shares[i].is_active = TRUE
              /\ shares[i].expires_at > now
        /\ shares[i].expires_at = shares[i].shared_at + 4 /\ now >= shares[i].shared_at + 5
              => i \notin friends_recent_shares(viewer)

\* five hours after a friend's share, with the flag still set, the feed of
\* the other friend is empty
C22_Witness ==
    /\ AcceptedBetween(1, 2)
    /\ \E i \in DOMAIN shares :
          /\ shares[i].user = 1 /\ shares[i].is_active
          /\ now = shares[i].shared_at + 5
    /\ friends_recent_shares(2) = {}

\* the rows of one user for one location
ReviewRowsOf(revs, u, lid) ==
    {i \in DOMAIN revs : revs[i].user = u /\ revs[i].location = lid}

\* C23: there is never more than one review row per (user, location); a pair
\* that has a row keeps exactly one; a successful submit leaves exactly one
\* row of the pair, holding the three sub-ratings, the crowd level and the
\* text of the form and created_at = now, and when the pair had a row
\* before, it is that row, at its place, and no row is added
C23_OneReviewPerPair ==
    /\ [](\A i, j \in DOMAIN reviews :
            reviews[i].user = reviews[j].user /\ reviews[i].location = reviews[j].location
                => i = j)
    /\ [][\A u \in Reviewers, l \in Locations :
            ReviewRowsOf(reviews, u, l) # {}
                => ReviewRowsOf(reviews', u, l) = ReviewRowsOf(reviews, u, l)]_vars
    /\ [][\A u \in Reviewers, form \in ReviewForms :
            \/ msg' \notin {"Review submitted", "Review updated"}
            \/ ~SubmitReview(u, form)
            \/ /\ Cardinality(ReviewRowsOf(reviews', u, form[1])) = 1
               /\ \A i \in ReviewRowsOf(reviews', u, form[1]) :
                     /\ reviews'[i].wifi_rating = form[2]
                     /\ reviews'[i].cleanliness_rating = form[3]
                     /\ reviews'[i].noise_rating = form[4]
                     /\ reviews'[i].crowd_level = form[6]
                     /\ reviews'[i].review_text = form[7]
                     /\ reviews'[i].created_at = now
               /\ IF ReviewRowsOf(reviews, u, form[1]) # {}
                  THEN /\ msg' = "Review updated"
                       /\ Len(reviews') = Len(reviews)
                       /\ \A j \in DOMAIN reviews :
                             j \notin ReviewRowsOf(reviews, u, form[1])
                                 => reviews'[j] = reviews[j]
                  ELSE /\ msg' = "Review submitted"
                       /\ reviews' = Append(reviews, reviews'[Len(reviews')])]_vars

\* a user's second submit, an hour after the first, has replaced the first:
\* one row, with the later time and the second form's values
C23_Witness ==
    /\ msg = "Review updated"
    /\ now = 1
    /\ \E i \in DOMAIN reviews :
          /\ reviews[i].user = 1 /\ reviews[i].created_at = 1
          /\ reviews[i].crowd_level = "heavy" /\ reviews[i].noise_rating = 2
          /\ ReviewRowsOf(reviews, 1, "L1") = {i}
    /\ Len(reviews) = 2

\* C24: the general_rating of every stored review, in tenths, is the tenth
\* nearest to the mean of its three sub-ratings (3 * tenths differs from
\* 10 * sum by at most 1), and lies in 10..100; the value of the form is not kept
C24_GeneralRatingIsMean ==
    \A i \in DOMAIN reviews :
        LET sum == reviews[i].wifi_rating + reviews[i].cleanliness_rating
                       + reviews[i].noise_rating
            g == reviews[i].general_rating
        IN  /\ 3 * g - 10 * sum \in {-1, 0, 1}
            /\ 10 <= g /\ g <= 100

\* a review submitted with sub-ratings 1, 1, 2 and general rating 1.0 is
\* stored with 1.3, and one with 1, 1, 1 and general rating 10.0 with 1.0
C24_Witness ==
    /\ \E i \in DOMAIN reviews :
          /\ reviews[i].wifi_rating = 1 /\ reviews[i].cleanliness_rating = 1
          /\ reviews[i].noise_rating = 2 /\ reviews[i].general_rating = 13
    /\ \E i \in DOMAIN reviews :
          /\ reviews[i].noise_rating = 1 /\ reviews[i].general_rating = 10

\* the reviews of l that are at most two hours old, and how many of them
\* report the level v
CountedReviews(revs, l, t) ==
    {i \in DOMAIN revs : revs[i].location = l /\ t - revs[i].created_at <= CrowdWindowHours}

ReportsOf(revs, l, t, v) ==
    {i \in CountedReviews(revs, l, t) : revs[i].crowd_level = v}

\* C25: after every request (a step that is not the passing of an hour) the
\* crowd level of a location whose reviews of the last two hours were
\* recounted is a level no other level is reported more often than, and
\* among levels reported equally often one whose newest report is not older
\* than the other's (it can be met first); with no such review it is unchanged
C25_MostCommonRecentLevel ==
    [][now' = now =>
        \A l \in Locations :
            IF CountedReviews(reviews', l, now) = {}
            THEN current_crowd_level'[l] = current_crowd_level[l]
            ELSE LET v == current_crowd_level'[l] IN
                 /\ ReportsOf(reviews', l, now, v) # {}
                 /\ \A w \in {reviews'[i].crowd_level : i \in CountedReviews(reviews', l, now)} :
                       LET cv == Cardinality(ReportsOf(reviews', l, now, v))
                           cw == Cardinality(ReportsOf(reviews', l, now, w))
                       IN  \/ cv > cw
                           \/ /\ cv = cw
                              /\ \E i \in ReportsOf(reviews', l, now, v) :
                                    \A j \in ReportsOf(reviews', l, now, w) :
                                        reviews'[i].created_at >= reviews'[j].created_at]_vars

\* two older reports of heavy outweigh the newest report, light
C25_Witness ==
    /\ Len(reviews) = 3
    /\ current_crowd_level["L1"] = "heavy"
    /\ Cardinality(ReportsOf(reviews, "L1", now, "heavy")) = 2
    /\ \E i \in ReportsOf(reviews, "L1", now, "light") :
          \A j \in ReportsOf(reviews, "L1", now, "heavy") :
              reviews[i].created_at > reviews[j].created_at

\* C26: the crowd level of every location is one of light, moderate, heavy
C26_CrowdLevelInChoices ==
    \A l \in Locations : current_crowd_level[l] \in CROWD_LEVELS

\* C27: the visibility of every memory is one of public, friends, private,
\* and the author of every memory can view it
C27_VisibilityInChoices ==
    \A mid \in DOMAIN memories :
        /\ memories[mid].visibility \in VISIBILITY_CHOICES
        /\ can_view(memories[mid], memories[mid].user)

\* the logged-in users the memory m is for: everybody when public, the
\* author when private, the author and the author's friends when friends-only
MayView(m, u) ==
    \/ m.visibility = "public"
    \/ m.visibility = "private" /\ u = m.user
    \/ m.visibility = "friends" /\ (u = m.user \/ AcceptedBetween(m.user, u))

\* C30: for a user who may not view a memory, toggle_like answers 'You
\* cannot like this memory' and the detail endpoint 'Permission denied',
\* and both leave every memory (liker list, likes_count, view_count) as it
\* was; and a user's id enters a liker list only in a step before which the
\* user may view the memory
C30_NonViewersChangeNothing ==
    [][/\ \A u \in Users, mid \in DOMAIN memories :
             \/ MayView(memories[mid], u)
             \/ /\ ToggleLike(u, mid) =>
                      msg' = "You cannot like this memory" /\ memories' = memories
                /\ MemoryDetail(u, mid) =>
                      msg' = "Permission denied" /\ memories' = memories
       /\ \A u \in Users, mid \in DOMAIN memories :
             /\ mid \in DOMAIN memories'
             /\ InList(u, memories'[mid].liked_by_user_ids)
             /\ ~InList(u, memories[mid].liked_by_user_ids)
             => MayView(memories[mid], u)]_vars

\* the author has liked a private memory and a friend of the author has just
\* been refused: the liker list still holds the author alone
C30_Witness ==
    /\ msg = "You cannot like this memory"
    /\ AcceptedBetween(1, 2)
    /\ \E mid \in DOMAIN memories :
          /\ memories[mid].visibility = "private"
          /\ memories[mid].liked_by_user_ids = <<memories[mid].user>>
          /\ memories[mid].likes_count = 1

\* C28: every join request that answered with the success message has its
\* user in the stored roster of the event
C28_NoSuccessfulJoinLost ==
    \A r \in Requests :
        (/\ join_pc[r] # <<>>
         /\ join_pc[r][1] = "done"
         /\ join_pc[r][4])
        => InList(join_pc[r][2], events[join_pc[r][3]].participant_user_ids)

====
